---- MODULE Spec2Model ----
(***************************************************************************)
(* The force-feedback session of FFB_Simulator: the DirectInput variant    *)
(* (src/ffbsimulator/FFB_Simulator.cpp) and the evdev variant              *)
(* (src/ffbsimulator/linux/src/FFB_Simulator.cpp) of ForceEffectSimulator. *)
(*                                                                         *)
(* The program state is the object's fields; the device is the environment *)
(* and is modelled by four facts the native calls read and write:          *)
(*   devOwned    the application holds the device (DirectInput: exclusive  *)
(*               acquisition; evdev: the device node is still there),      *)
(*   devEffects  the handles of the effects created on the device,         *)
(*   devPlaying  the handles of the effects that are playing,              *)
(*   devParams   the magnitude and period resident on the device for each  *)
(*               handle.                                                   *)
(* Device assumptions: a native start, stop, poll or read fails only when   *)
(* the device is not owned, and a device that is not owned plays nothing;   *)
(* a start that DirectInput accepts may still leave the effect not playing  *)
(* (the status read back at FFB_Simulator.cpp:1012-1020); an effect of      *)
(* finite duration (the ramps) stops by itself.                             *)
(***************************************************************************)
EXTENDS Integers, Sequences, FiniteSets, TLC

\* ------------------------------------------------------------------ bounds

\* At most this many of the 14 definitions are rejected by the device in one
\* catalog construction (or all of them are).
MaxRejected == 3

\* The cached device sample takes the values 0..MaxSample.
MaxSample == 1

\* In a session the intensity, the direction and the duration are adjusted at
\* most this many steps, taken together, away from their initial values.
MaxAdjust == 1

\* SpecAdj adjusts the intensity at most this many steps away from its
\* initial value: far enough to pass zero and to pass MAX_FORCE.
MaxWalk == 11

\* The number of registrations made on a catalog after its construction.
MaxRegister == 2

\* The number of navigation calls the history of the cursor remembers.
TrailLen == 2

\* --------------------------------------------------------------- constants

DI == "DirectInput"

EV == "evdev"

Platforms == {DI, EV}

MAX_FORCE_DI == 10000

MAX_FORCE_EV == 32767

INIT_INTENSITY_DI == 5000

INIT_INTENSITY_EV == 16000

STEP_DI == 500

STEP_EV == 2000

\* The 14 effect definitions, in the order CreateAllEffects registers them.
Defs ==
  << "Constant_Droite", "Constant_Gauche", "Constant_Fort", "Constant_Faible",
     "Sinus", "Carre", "Triangle", "Dent_Scie",
     "Rampe_Montante", "Rampe_Descendante",
     "Ressort", "Amortissement", "Inertie", "Friction" >>

DefSet == { Defs[i] : i \in 1..Len(Defs) }

\* The key order of std::map<std::string, ...>: the names in byte order.
SortedNames ==
  << "Amortissement", "Carre", "Constant_Droite", "Constant_Faible",
     "Constant_Fort", "Constant_Gauche", "Dent_Scie", "Friction", "Inertie",
     "Rampe_Descendante", "Rampe_Montante", "Ressort", "Sinus", "Triangle" >>

\* The creator each definition is registered with.
Kind(name) ==
  CASE name \in {"Constant_Droite", "Constant_Gauche", "Constant_Fort", "Constant_Faible"}
         -> "Constant"
    [] name \in {"Sinus", "Carre", "Triangle", "Dent_Scie"} -> "Periodic"
    [] name \in {"Rampe_Montante", "Rampe_Descendante"} -> "Ramp"
    [] OTHER -> "Condition"

MaxForce(p) == IF p = DI THEN MAX_FORCE_DI ELSE MAX_FORCE_EV

InitIntensity(p) == IF p = DI THEN INIT_INTENSITY_DI ELSE INIT_INTENSITY_EV

Step(p) == IF p = DI THEN STEP_DI ELSE STEP_EV

EFFECT_DURATION == 2000

DURATION_MIN == 100

DURATION_MAX == 10000

DURATION_STEP == 500

DIRECTION_STEP == 1000

PUSHED_PERIOD == 200

\* The magnitude (for a ramp its start, for a condition its coefficient) and
\* the period in ms that each definition is created with.
CreationParams(p, name) ==
  LET di == p = DI
      par(m, t) == [magnitude |-> m, period |-> t]
  IN  CASE name = "Constant_Droite" -> par(IF di THEN 8000 ELSE 24000, 0)
        [] name = "Constant_Gauche" -> par(IF di THEN -8000 ELSE -24000, 0)
        [] name = "Constant_Fort"   -> par(IF di THEN 10000 ELSE 32000, 0)
        [] name = "Constant_Faible" -> par(IF di THEN 4000 ELSE 12000, 0)
        [] name = "Sinus"     -> par(IF di THEN 6000 ELSE 20000, 200)
        [] name = "Carre"     -> par(IF di THEN 7000 ELSE 22000, 150)
        [] name = "Triangle"  -> par(IF di THEN 5000 ELSE 18000, 300)
        [] name = "Dent_Scie" -> par(IF di THEN 6000 ELSE 20000, 180)
        [] name = "Rampe_Montante"    -> par(IF di THEN 2000 ELSE 5000, 0)
        [] name = "Rampe_Descendante" -> par(IF di THEN 10000 ELSE 30000, 0)
        [] name = "Ressort"       -> par(IF di THEN 8000 ELSE 24000, 0)
        [] name = "Amortissement" -> par(IF di THEN 7000 ELSE 20000, 0)
        [] name = "Inertie"       -> par(IF di THEN 6000 ELSE 18000, 0)
        [] OTHER                  -> par(IF di THEN 5000 ELSE 15000, 0)

\* The parameters resident on the device for the handles of a handle table
\* just created.
CreatedParams(p, effects) ==
  LET hs == { effects[n] : n \in DOMAIN effects }
      nameOf(h) == CHOOSE n \in DOMAIN effects : effects[n] = h
  IN  IF hs = {} THEN << >> ELSE [h \in hs |-> CreationParams(p, nameOf(h))]

\* The sets of definitions the device may reject in one construction.
RejectSets == { R \in SUBSET DefSet : Cardinality(R) <= MaxRejected } \cup {DefSet}

\* ------------------------------------------------------------------- state

VARIABLES
  platform,              \* which variant of the program runs
  pc,                    \* the main thread's position in main()
  upd,                   \* the polling thread's position in UpdateLoop
  m_pDevice,             \* the device connection is held (m_pDevice / m_DeviceFd)
  m_bDeviceAcquired,     \* m_bDeviceAcquired (evdev: m_bDeviceOpen)
  m_bShowingHelp,
  m_Effects,             \* name -> handle: the handle table
  m_EffectNames,         \* the navigation list
  m_CurrentEffectIndex,
  m_bEffectPlaying,
  m_bRunning,
  m_ForceIntensity,
  m_JoyState,            \* the cached device sample
  devOwned,
  devEffects,
  devPlaying,
  m_EffectDuration,
  m_EffectDirection,
  devParams,             \* handle -> the parameters resident on the device
  last,                  \* the last operation and the native calls it issued
  navStart,              \* the cursor when the current run of NextEffect calls began
  navCount,              \* the length of that run
  navTrail               \* the last navigation calls (at most TrailLen): << method, cursor before it >>

vars ==
  << platform, pc, upd, m_pDevice, m_bDeviceAcquired, m_bShowingHelp, m_Effects,
     m_EffectNames, m_CurrentEffectIndex, m_bEffectPlaying, m_bRunning,
     m_ForceIntensity, m_JoyState, devOwned, devEffects, devPlaying,
     m_EffectDuration, m_EffectDirection, devParams, last, navStart, navCount,
     navTrail >>

navVars == << navStart, navCount, navTrail >>

catVars == << m_Effects, m_EffectNames >>

setVars == << m_EffectDuration, m_EffectDirection >>

\* The handles of a handle table.
Handles(effects) == { effects[n] : n \in DOMAIN effects }

\* A native call as the log keeps it: the call, the handle (0: the device) and
\* its result.
Call(fn, h, res) == << fn, h, res >>

Op(name, ret, calls) == [op |-> name, ret |-> ret, calls |-> calls]

\* The calls of one kind in a log entry, in the order they were issued.
CallsOf(l, fn) == SelectSeq(l.calls, LAMBDA c : c[1] = fn)

CallResults(l, fn) == { CallsOf(l, fn)[i][3] : i \in 1..Len(CallsOf(l, fn)) }

NamesOf(seq) == { seq[i] : i \in 1..Len(seq) }

\* ------------------------------------------------------------ construction

Init ==
  /\ platform \in Platforms
  /\ pc = "start"
  /\ upd = "idle"
  /\ m_pDevice = FALSE
  /\ m_bDeviceAcquired = FALSE
  /\ m_bShowingHelp = FALSE
  /\ m_Effects = << >>
  /\ m_EffectNames = << >>
  /\ m_CurrentEffectIndex = 0
  /\ m_bEffectPlaying = FALSE
  /\ m_bRunning = FALSE
  /\ m_ForceIntensity = InitIntensity(platform)
  /\ m_JoyState = 0
  /\ devOwned = FALSE
  /\ devEffects = {}
  /\ devPlaying = {}
  /\ m_EffectDuration = EFFECT_DURATION
  /\ m_EffectDirection = 0
  /\ devParams = << >>
  /\ last = Op("ctor", TRUE, << >>)
  /\ navStart = 0
  /\ navCount = 0
  /\ navTrail = << >>

\* A variant of CreateEffect that stores a handle for a rejected definition.
CreateEffect_KeepsRejected(name, R, acc) ==
  [acc EXCEPT !.ok = name \notin R,
              !.effects = [n \in DOMAIN @ \cup {name} |->
                             IF n = name THEN acc.nextId ELSE @[n]],
              !.nextId = @ + 1,
              !.calls = Append(@, Call("CreateEffect", name,
                                       IF name \in R THEN "ERR" ELSE "OK"))]

\* One Create*Effect call: the native creation succeeds unless the device
\* rejects the definition; on success the handle is stored under the name.
CreateEffect(name, R, acc) ==
  IF name \in R
    THEN [acc EXCEPT !.ok = FALSE,
                     !.calls = Append(@, Call("CreateEffect", name, "ERR"))]
    ELSE [acc EXCEPT !.ok = TRUE,
                     !.effects = [n \in DOMAIN @ \cup {name} |->
                                    IF n = name THEN acc.nextId ELSE @[n]],
                     !.nextId = @ + 1,
                     !.calls = Append(@, Call("CreateEffect", name, "OK"))]

\* success &= Create*Effect(...), over the definitions from the i-th on.
RECURSIVE CreateFold(_, _, _)
CreateFold(i, R, acc) ==
  IF i > Len(Defs) THEN acc
  ELSE LET r == CreateEffect(Defs[i], R, acc)
       IN  CreateFold(i + 1, R, [r EXCEPT !.success = acc.success /\ r.ok])

\* A variant of MapOrder that lists every definition, created or not.
MapOrder_AllDefinitions(effects) == SortedNames

\* The names of a handle table in the order the map iterates them.
MapOrder(effects) == SelectSeq(SortedNames, LAMBDA n : n \in DOMAIN effects)

\* CreateAllEffects on a device that rejects the definitions in R: the handle
\* table, the navigation list, the native calls and the value returned.
CreateAllEffects(R, effects0, names0) ==
  LET f == CreateFold(1, R, [effects |-> effects0, nextId |-> 1, ok |-> TRUE,
                             success |-> TRUE, calls |-> << >>])
  IN  [effects |-> f.effects,
       names   |-> names0 \o MapOrder(f.effects),
       calls   |-> f.calls,
       ret     |-> f.success /\ DOMAIN f.effects # {}]

\* ---------------------------------------------------------- native calls

\* A variant of NativeStop in which the device ignores the stop.
NativeStop_Ignored(playing, h) == playing

\* What is playing after IDirectInputEffect::Stop / the EV_FF stop event on
\* handle h: the device stops it when the application owns the device.
NativeStop(playing, h) == IF devOwned THEN playing \ {h} ELSE playing

\* The result of a native call that only needs the device to be owned.
StopResult == IF devOwned THEN "OK" ELSE "ERR"

\* The result of a stop on handle h with `playing` playing: "STOPPED" is a
\* success that ended a playing effect.
StopOutcome(playing, h) ==
  IF ~devOwned THEN "ERR" ELSE IF h \in playing THEN "STOPPED" ELSE "OK"

\* The results IDirectInputEffect::Start can give.
StartResults ==
  IF devOwned THEN {"OK", "NOTDOWNLOADED", "ERR"}
  ELSE {"INPUTLOST", "NOTEXCLUSIVEACQUIRED"}

\* The handle of the effect at the cursor, 0 when the table has none.
CurrentName == m_EffectNames[m_CurrentEffectIndex + 1]

CurrentHandle == IF CurrentName \in DOMAIN m_Effects THEN m_Effects[CurrentName] ELSE 0

NameOf(h) == CHOOSE n \in DOMAIN m_Effects : m_Effects[n] = h

\* ------------------------------------------------------- effect control

\* A variant of StopAllPlaying that stops only the first handle of the table.
StopAllPlaying_FirstOnly(playing, effects) ==
  IF devOwned THEN playing \ {1} ELSE playing

\* The loop of StopAllEffects: a stop on every handle of the table.
RECURSIVE StopEach(_, _)
StopEach(hs, playing) ==
  IF hs = << >> THEN playing
  ELSE StopEach(Tail(hs), NativeStop(playing, Head(hs)))

StopAllPlaying(playing, effects) ==
  StopEach([i \in 1..Len(MapOrder(effects)) |-> effects[MapOrder(effects)[i]]],
           playing)

StopAllCalls(effects) ==
  LET order == MapOrder(effects)
  IN  [i \in 1..Len(order) |->
         Call("Stop", effects[order[i]], StopOutcome(devPlaying, effects[order[i]]))]

StopAllEffects ==
  /\ devPlaying' = StopAllPlaying(devPlaying, m_Effects)
  /\ m_bEffectPlaying' = FALSE
  /\ last' = Op("StopAllEffects", TRUE, StopAllCalls(m_Effects))
  /\ UNCHANGED << platform, setVars, devParams, m_pDevice, m_bDeviceAcquired, catVars,
                  m_CurrentEffectIndex, m_ForceIntensity, m_JoyState,
                  devOwned, devEffects >>

\* A variant of StopCurrent that clears the flag without a native stop.
StopCurrent_NoStop ==
  [playing |-> devPlaying, flag |-> FALSE, calls |-> << >>]

\* A variant of StopCurrent that keeps the flag when the native stop fails.
StopCurrent_FailsOnError ==
  IF m_EffectNames = << >> \/ CurrentHandle = 0
    THEN [playing |-> devPlaying, flag |-> m_bEffectPlaying, calls |-> << >>]
    ELSE [playing |-> NativeStop(devPlaying, CurrentHandle),
          flag |-> IF devOwned THEN FALSE ELSE m_bEffectPlaying,
          calls |-> << Call("Stop", CurrentHandle,
                            StopOutcome(devPlaying, CurrentHandle)) >>]

\* A variant of StopCurrent that sends the stop to the first effect of the
\* navigation list instead of the one at the cursor.
StopCurrent_StopsFirst ==
  IF m_EffectNames = << >> \/ CurrentHandle = 0
    THEN [playing |-> devPlaying, flag |-> m_bEffectPlaying, calls |-> << >>]
    ELSE [playing |-> NativeStop(devPlaying, m_Effects[m_EffectNames[1]]),
          flag |-> FALSE,
          calls |-> << Call("Stop", m_Effects[m_EffectNames[1]],
                            StopOutcome(devPlaying, m_Effects[m_EffectNames[1]])) >>]

\* StopCurrentEffect as NextEffect, PreviousEffect and the SPACE key call it:
\* what is playing, the flag and the native calls afterwards.
StopCurrent ==
  IF m_EffectNames = << >> \/ CurrentHandle = 0
    THEN [playing |-> devPlaying, flag |-> m_bEffectPlaying, calls |-> << >>]
    ELSE [playing |-> NativeStop(devPlaying, CurrentHandle), flag |-> FALSE,
          calls |-> << Call("Stop", CurrentHandle,
                            StopOutcome(devPlaying, CurrentHandle)) >>]

StopCurrentEffect ==
  /\ devPlaying' = StopCurrent.playing
  /\ m_bEffectPlaying' = StopCurrent.flag
  /\ last' = Op("StopCurrentEffect", TRUE, StopCurrent.calls)
  /\ UNCHANGED << platform, setVars, devParams, m_pDevice, m_bDeviceAcquired, catVars,
                  m_CurrentEffectIndex, m_ForceIntensity, m_JoyState,
                  devOwned, devEffects >>

\* A variant of NextIndex that saturates at the end of the list.
NextIndex_NoWrap(i, n) == IF i + 1 >= n THEN i ELSE i + 1

\* (m_CurrentEffectIndex + 1) % m_EffectNames.size(). The sum is taken in
\* size_t; with 0 <= i < n it is below the modulus of size_t and does not wrap.
NextIndex(i, n) == (i + 1) % n

\* A variant of PreviousIndex that stays on the first effect instead of
\* wrapping to the last.
PreviousIndex_NoWrap(i, n) == IF i = 0 THEN 0 ELSE i - 1

\* (m_CurrentEffectIndex - 1 + m_EffectNames.size()) % m_EffectNames.size().
\* For i = 0 the int -1 converts to the largest size_t and adding n wraps back
\* to n - 1: modulo the width of size_t the sum is i - 1 + n, which is >= 0.
PreviousIndex(i, n) == (i - 1 + n) % n

NextEffect ==
  /\ IF m_EffectNames = << >>
       THEN /\ UNCHANGED << devPlaying, m_bEffectPlaying, m_CurrentEffectIndex >>
            /\ last' = Op("NextEffect", TRUE, << >>)
       ELSE /\ devPlaying' = StopCurrent.playing
            /\ m_bEffectPlaying' = StopCurrent.flag
            /\ m_CurrentEffectIndex' = NextIndex(m_CurrentEffectIndex, Len(m_EffectNames))
            /\ last' = Op("NextEffect", TRUE, StopCurrent.calls)
  /\ UNCHANGED << platform, setVars, devParams, m_pDevice, m_bDeviceAcquired, catVars,
                  m_ForceIntensity, m_JoyState, devOwned, devEffects >>

PreviousEffect ==
  /\ IF m_EffectNames = << >>
       THEN /\ UNCHANGED << devPlaying, m_bEffectPlaying, m_CurrentEffectIndex >>
            /\ last' = Op("PreviousEffect", TRUE, << >>)
       ELSE /\ devPlaying' = StopCurrent.playing
            /\ m_bEffectPlaying' = StopCurrent.flag
            /\ m_CurrentEffectIndex' =
                 PreviousIndex(m_CurrentEffectIndex, Len(m_EffectNames))
            /\ last' = Op("PreviousEffect", TRUE, StopCurrent.calls)
  /\ UNCHANGED << platform, setVars, devParams, m_pDevice, m_bDeviceAcquired, catVars,
                  m_ForceIntensity, m_JoyState, devOwned, devEffects >>

\* A variant of PlayOutcomesDI that downloads and starts again after any
\* failed start, and once more after a failed second start.
PlayOutcomesDI_RetryAlways(h, p0) ==
  LET pre == << Call("GetEffectStatus", h, IF h \in p0 THEN "PLAYING" ELSE "IDLE") >>
  IN  { [flag |-> hr3 = "OK",
         playing |-> IF hr3 = "OK" THEN p0 \cup {h} ELSE p0,
         calls |-> pre \o << Call("Start", h, hr), Call("Download", h, "OK"),
                             Call("Start", h, hr2), Call("Start", h, hr3) >>]
        : hr \in StartResults \ {"OK"}, hr2 \in StartResults \ {"OK"},
          hr3 \in StartResults }
      \cup { [flag |-> TRUE, playing |-> p0 \cup {h},
              calls |-> pre \o << Call("Start", h, "OK"),
                                  Call("GetEffectStatus", h, "PLAYING") >>] }

\* The part of the DirectInput PlayCurrentEffect after StopAllEffects, for the
\* handle h at the cursor with p0 playing: every outcome the device allows.
PlayOutcomesDI(h, p0) ==
  LET pre == << Call("GetEffectStatus", h, IF h \in p0 THEN "PLAYING" ELSE "IDLE") >>
      started == { [flag |-> TRUE,
                    playing |-> IF st = "PLAYING" THEN p0 \cup {h} ELSE p0,
                    calls |-> pre \o << Call("Start", h, "OK"),
                                        Call("GetEffectStatus", h, st) >>]
                   : st \in {"PLAYING", "IDLE"} }
      failed == { [flag |-> FALSE, playing |-> p0,
                   calls |-> pre \o << Call("Start", h, hr) >>]
                  : hr \in StartResults \ {"OK", "NOTDOWNLOADED"} }
      noDownload == { [flag |-> FALSE, playing |-> p0,
                       calls |-> pre \o << Call("Start", h, "NOTDOWNLOADED"),
                                           Call("Download", h, "ERR") >>] }
      retried == { [flag |-> hr2 = "OK",
                    playing |-> IF hr2 = "OK" /\ st = "PLAYING" THEN p0 \cup {h} ELSE p0,
                    calls |-> pre \o << Call("Start", h, "NOTDOWNLOADED"),
                                        Call("Download", h, "OK"),
                                        Call("Start", h, hr2) >>]
                   : hr2 \in StartResults, st \in {"PLAYING", "IDLE"} }
  IN  (IF "OK" \in StartResults THEN started ELSE {})
      \cup failed
      \cup (IF "NOTDOWNLOADED" \in StartResults THEN noDownload \cup retried ELSE {})

\* A variant of PlayOutcomesEV that writes the play event and leaves the
\* playing flag as it was cleared by StopAllEffects.
PlayOutcomesEV_NoFlag(h, p0) ==
  { [flag |-> FALSE, playing |-> IF devOwned THEN p0 \cup {h} ELSE p0,
     calls |-> << Call("Start", h, StopResult) >>] }

\* The same part of the evdev PlayCurrentEffect: one write of the play event.
PlayOutcomesEV(h, p0) ==
  IF devOwned
    THEN { [flag |-> TRUE, playing |-> p0 \cup {h},
            calls |-> << Call("Start", h, "OK") >>] }
    ELSE { [flag |-> FALSE, playing |-> p0,
            calls |-> << Call("Start", h, "ERR") >>] }

\* A variant of PlayOutcomes that raises the flag whatever the start returned.
PlayOutcomes_FlagAlways(h, p0) ==
  { [o EXCEPT !.flag = TRUE]
    : o \in IF platform = DI THEN PlayOutcomesDI(h, p0) ELSE PlayOutcomesEV(h, p0) }

PlayOutcomes(h, p0) ==
  IF platform = DI THEN PlayOutcomesDI(h, p0) ELSE PlayOutcomesEV(h, p0)

PlayCurrentEffect ==
  /\ IF m_EffectNames = << >>
       THEN /\ UNCHANGED << devPlaying, m_bEffectPlaying >>
            /\ last' = Op("PlayCurrentEffect", FALSE, << >>)
       ELSE LET p0 == StopAllPlaying(devPlaying, m_Effects)
                stops == StopAllCalls(m_Effects)
            IN  IF CurrentHandle = 0
                  THEN /\ devPlaying' = p0
                       /\ m_bEffectPlaying' = FALSE
                       /\ last' = Op("PlayCurrentEffect", FALSE, stops)
                  ELSE \E o \in PlayOutcomes(CurrentHandle, p0) :
                         /\ devPlaying' = o.playing
                         /\ m_bEffectPlaying' = o.flag
                         /\ last' = Op("PlayCurrentEffect", o.flag, stops \o o.calls)
  /\ UNCHANGED << platform, setVars, devParams, m_pDevice, m_bDeviceAcquired, catVars,
                  m_CurrentEffectIndex, m_ForceIntensity, m_JoyState,
                  devOwned, devEffects >>

\* AdjustIntensity(delta): the sum in the width of m_ForceIntensity (LONG on
\* DirectInput, where it cannot overflow here; int16_t on evdev), then the clamp.
AddIntensity(p, x, delta) ==
  IF p = DI THEN x + delta ELSE ((x + delta + 32768) % 65536) - 32768

Clamp(lo, hi, x) == IF x < lo THEN lo ELSE IF x > hi THEN hi ELSE x

NewIntensity(p, x, delta) == Clamp(-MaxForce(p), MaxForce(p), AddIntensity(p, x, delta))

Abs(x) == IF x < 0 THEN -x ELSE x

\* A variant of PushedValue that pushes the intensity whatever the kind.
PushedValue_EveryKind(kind, v) == << v >>

\* The magnitude AdjustIntensity pushes for an effect of a kind: the intensity
\* for a constant force, its absolute value for a periodic one, nothing for
\* a ramp or a condition.
PushedValue(kind, v) ==
  IF kind = "Constant" THEN << v >>
  ELSE IF kind = "Periodic" THEN << Abs(v) >>
  ELSE << >>

\* The SetParameters call AdjustIntensity makes on DirectInput for the
\* effect at the cursor while the playing flag is set; evdev pushes nothing.
AdjustCalls(v) ==
  IF /\ platform = DI
     /\ m_bEffectPlaying
     /\ m_EffectNames # << >>
     /\ CurrentHandle # 0
    THEN [i \in 1..Len(PushedValue(Kind(CurrentName), v)) |->
            Call("SetParameters", CurrentHandle, PushedValue(Kind(CurrentName), v)[i])]
    ELSE << >>

\* The parameters resident on the device after the calls of AdjustCalls: an
\* owned device takes the pushed magnitude, and for a periodic effect the
\* period of 200 ms the call carries; playback is not touched.
PushParams(params, calls, owned) ==
  IF calls = << >> \/ ~owned \/ calls[1][2] \notin DOMAIN params
    THEN params
    ELSE [params EXCEPT ![calls[1][2]] =
            [magnitude |-> calls[1][3],
             period    |-> IF Kind(NameOf(calls[1][2])) = "Periodic"
                             THEN PUSHED_PERIOD ELSE @.period]]

AdjustIntensity(delta) ==
  /\ m_ForceIntensity' = NewIntensity(platform, m_ForceIntensity, delta)
  /\ last' = Op("AdjustIntensity", TRUE,
                AdjustCalls(NewIntensity(platform, m_ForceIntensity, delta)))
  /\ devParams' = PushParams(devParams,
                     AdjustCalls(NewIntensity(platform, m_ForceIntensity, delta)),
                     devOwned)
  /\ UNCHANGED << platform, setVars, m_pDevice, m_bDeviceAcquired, catVars,
                  m_CurrentEffectIndex, m_bEffectPlaying, m_JoyState,
                  devOwned, devEffects, devPlaying >>

\* A variant of AdjustDirection that stops the playing effects so that the
\* new direction takes effect at the next start.
AdjustDirection_Restarts(delta) ==
  /\ m_EffectDirection' = NewIntensity(platform, m_EffectDirection, delta)
  /\ devPlaying' = StopAllPlaying(devPlaying, m_Effects)
  /\ m_bEffectPlaying' = FALSE
  /\ last' = Op("AdjustDirection", TRUE, StopAllCalls(m_Effects))
  /\ UNCHANGED << platform, m_EffectDuration, devParams, m_pDevice,
                  m_bDeviceAcquired, catVars, m_CurrentEffectIndex,
                  m_ForceIntensity, m_JoyState, devOwned, devEffects >>

\* AdjustDirection(delta): the sum in the width of m_EffectDirection, then the
\* clamp; nothing is sent to the device.
AdjustDirection(delta) ==
  /\ m_EffectDirection' = NewIntensity(platform, m_EffectDirection, delta)
  /\ last' = Op("AdjustDirection", TRUE, << >>)
  /\ UNCHANGED << platform, m_EffectDuration, devParams, m_pDevice,
                  m_bDeviceAcquired, catVars, m_CurrentEffectIndex,
                  m_bEffectPlaying, m_ForceIntensity, m_JoyState,
                  devOwned, devEffects, devPlaying >>

\* INFINITE_DURATION: all ones on DirectInput (written -1 here), 0 on evdev.
InfiniteDuration(p) == IF p = DI THEN -1 ELSE 0

\* m_EffectDuration += delta in unsigned 32-bit arithmetic, then
\* max(100, min(10000, .)): a sum below zero wraps to 2^32 + sum, which is
\* above 10000 for every sum reachable here, so the min cuts it to 10000.
NewDuration(x, delta) ==
  IF x + delta < 0 THEN DURATION_MAX
  ELSE Clamp(DURATION_MIN, DURATION_MAX, x + delta)

AdjustDuration(delta) ==
  /\ m_EffectDuration' = IF m_EffectDuration = InfiniteDuration(platform)
                           THEN EFFECT_DURATION
                           ELSE NewDuration(m_EffectDuration, delta)
  /\ last' = Op("AdjustDuration", TRUE, << >>)
  /\ UNCHANGED << platform, m_EffectDirection, devParams, m_pDevice,
                  m_bDeviceAcquired, catVars, m_CurrentEffectIndex,
                  m_bEffectPlaying, m_ForceIntensity, m_JoyState,
                  devOwned, devEffects, devPlaying >>

\* ----------------------------------------------------------- polling tick

\* UpdateDeviceState on DirectInput, from its end to its beginning. An Acquire
\* can succeed or fail whatever the state, a successful one gives the
\* application the device; Poll succeeds exactly when the device is owned;
\* GetDeviceState fails when ownership goes at that moment.

\* A variant of TickRead that does not record the acquisition of this tick.
TickRead_ForgetsAcquire(c) ==
  { [acq |-> m_bDeviceAcquired /\ rd, owned |-> rd, read |-> rd,
     calls |-> c \o << Call("GetDeviceState", 0, IF rd THEN "OK" ELSE "ERR") >>]
    : rd \in BOOLEAN }

\* GetDeviceState after the calls c, with the device acquired: a failed read
\* clears m_bDeviceAcquired.
TickRead(c) ==
  { [acq |-> rd, owned |-> rd, read |-> rd,
     calls |-> c \o << Call("GetDeviceState", 0, IF rd THEN "OK" ELSE "ERR") >>]
    : rd \in BOOLEAN }

\* Poll after the calls c, with the device owned or not: a failed Poll is
\* followed by an Acquire, whose failure clears m_bDeviceAcquired and ends the
\* tick.
TickPoll(own, c) ==
  IF own
    THEN TickRead(c \o << Call("Poll", 0, "OK") >>)
    ELSE { [acq |-> FALSE, owned |-> FALSE, read |-> FALSE,
            calls |-> c \o << Call("Poll", 0, "ERR"), Call("Acquire", 0, "ERR") >>] }
         \cup TickRead(c \o << Call("Poll", 0, "ERR"), Call("Acquire", 0, "OK") >>)

\* A variant of UpdateOutcomesDI that polls and reads after a failed Acquire.
UpdateOutcomesDI_PollsAnyway ==
  IF ~m_pDevice
    THEN { [acq |-> m_bDeviceAcquired, owned |-> devOwned, read |-> FALSE,
            calls |-> << >>] }
  ELSE IF m_bDeviceAcquired
    THEN TickPoll(devOwned, << >>)
    ELSE TickPoll(devOwned, << Call("Acquire", 0, "ERR") >>)
         \cup TickPoll(TRUE, << Call("Acquire", 0, "OK") >>)

\* The whole tick: nothing without a device; when the state is not acquired,
\* an Acquire whose failure ends the tick.
UpdateOutcomesDI ==
  IF ~m_pDevice
    THEN { [acq |-> m_bDeviceAcquired, owned |-> devOwned, read |-> FALSE,
            calls |-> << >>] }
  ELSE IF m_bDeviceAcquired
    THEN TickPoll(devOwned, << >>)
    ELSE { [acq |-> FALSE, owned |-> devOwned, read |-> FALSE,
            calls |-> << Call("Acquire", 0, "ERR") >>] }
         \cup TickPoll(TRUE, << Call("Acquire", 0, "OK") >>)

\* UpdateDeviceState on evdev: the pending events are read from the joystick
\* descriptor; there is no acquisition to keep.
UpdateOutcomesEV ==
  IF ~m_pDevice
    THEN { [acq |-> m_bDeviceAcquired, owned |-> devOwned, read |-> FALSE,
            calls |-> << >>] }
    ELSE { [acq |-> m_bDeviceAcquired, owned |-> devOwned, read |-> devOwned,
            calls |-> << Call("read", 0, IF devOwned THEN "OK" ELSE "ERR") >>] }

UpdateOutcomes == IF platform = DI THEN UpdateOutcomesDI ELSE UpdateOutcomesEV

\* A variant of UpdateDeviceState that clears the playing flag when the tick
\* finds the device gone.
UpdateDeviceState_ClearsFlag ==
  /\ \E o \in UpdateOutcomes :
       /\ m_bDeviceAcquired' = o.acq
       /\ devOwned' = o.owned
       /\ devPlaying' = IF o.owned THEN devPlaying ELSE {}
       /\ m_bEffectPlaying' = (m_bEffectPlaying /\ o.owned)
       /\ IF o.read
            THEN \E v \in 0..MaxSample : m_JoyState' = v
            ELSE m_JoyState' = m_JoyState
       /\ last' = Op("UpdateDeviceState", o.read, o.calls)
  /\ UNCHANGED << platform, setVars, devParams, m_pDevice, catVars, m_CurrentEffectIndex,
                  m_ForceIntensity, devEffects >>

UpdateDeviceState ==
  /\ \E o \in UpdateOutcomes :
       /\ m_bDeviceAcquired' = o.acq
       /\ devOwned' = o.owned
       /\ devPlaying' = IF o.owned THEN devPlaying ELSE {}
       /\ IF o.read
            THEN \E v \in 0..MaxSample : m_JoyState' = v
            ELSE m_JoyState' = m_JoyState
       /\ last' = Op("UpdateDeviceState", o.read, o.calls)
  /\ UNCHANGED << platform, setVars, devParams, m_pDevice, catVars, m_CurrentEffectIndex,
                  m_bEffectPlaying, m_ForceIntensity, devEffects >>

\* ------------------------------------------------- Initialize and Shutdown

\* Initialize: the device is looked up and opened (open: "notfound" when the
\* lookup or the open fails, "setupfail" when a later setup step fails with
\* the connection held, "ok"), DirectInput tries a first Acquire (acq), and
\* CreateAllEffects runs on a device that rejects the definitions in R.
\* A variant of InitializeReturn that fails when the first Acquire failed.
InitializeReturn_NeedsAcquire(open, acq, created) == open = "ok" /\ acq /\ created

\* A variant of AfterInitialize in which main calls Run whatever was returned.
AfterInitialize_RunsAnyway(ok) == "ready"

\* The value Initialize returns: the device was found and set up and
\* CreateAllEffects returned true; FindAndInitDevice returns true whether or
\* not its Acquire succeeded.
InitializeReturn(open, acq, created) == open = "ok" /\ created

\* main(): Run is called only after Initialize returned true.
AfterInitialize(ok) == IF ok THEN "ready" ELSE "failed"

Initialize ==
  /\ pc = "start"
  /\ \E open \in {"notfound", "setupfail", "ok"},
        acq \in BOOLEAN,
        R \in RejectSets :
       /\ open # "ok" => (R = {} /\ acq)
       /\ platform = EV => acq
       /\ IF open # "ok"
            THEN /\ m_pDevice' = (open = "setupfail")
                 /\ m_bDeviceAcquired' = (platform = EV /\ open = "setupfail")
                 /\ devOwned' = FALSE
                 /\ UNCHANGED << catVars, devEffects, devParams >>
                 /\ last' = Op("Initialize", InitializeReturn(open, acq, FALSE), << >>)
                 /\ pc' = AfterInitialize(InitializeReturn(open, acq, FALSE))
            ELSE LET c == CreateAllEffects(R, m_Effects, m_EffectNames)
                     ret == InitializeReturn(open, acq, c.ret)
                     first == IF platform = DI
                                THEN << Call("Acquire", 0, IF acq THEN "OK" ELSE "ERR") >>
                                ELSE << >>
                 IN  /\ m_pDevice' = TRUE
                     /\ m_bDeviceAcquired' = acq
                     /\ devOwned' = acq
                     /\ m_Effects' = c.effects
                     /\ m_EffectNames' = c.names
                     /\ devEffects' = Handles(c.effects)
                     /\ devParams' = CreatedParams(platform, c.effects)
                     /\ last' = Op("Initialize", ret, first \o c.calls)
                     /\ pc' = AfterInitialize(ret)
  /\ UNCHANGED << platform, setVars, upd, m_bShowingHelp, m_CurrentEffectIndex,
                  m_bEffectPlaying, m_bRunning, m_ForceIntensity, m_JoyState,
                  devPlaying, navVars >>

\* A variant of CleanupCalls that removes nothing from the device.
CleanupCalls_Nothing(effects) == << >>

\* The native calls of CleanupEffects: DirectInput stops and releases every
\* effect, evdev removes every effect from the kernel table.
CleanupCalls(effects) ==
  LET order == MapOrder(effects)
  IN  IF platform = DI
        THEN [i \in 1..(2 * Len(order)) |->
                IF i % 2 = 1
                  THEN Call("Stop", effects[order[(i + 1) \div 2]], StopResult)
                  ELSE Call("Release", effects[order[i \div 2]], "OK")]
        ELSE [i \in 1..Len(order) |->
                Call("EVIOCRMFF", effects[order[i]], StopResult)]

\* A variant of ReleaseCalls without the test of the connection.
ReleaseCalls_Unguarded ==
  IF platform = DI
    THEN << Call("Unacquire", 0, "OK"), Call("Release", 0, "OK") >>
    ELSE << Call("closeJoystick", 0, "OK"),
            Call("Autocenter", 0, StopResult), Call("close", 0, "OK") >>

\* The native calls that give the connection back.
ReleaseCalls ==
  IF ~m_pDevice THEN << >>
  ELSE IF platform = DI
         THEN << Call("Unacquire", 0, "OK"), Call("Release", 0, "OK") >>
         ELSE << Call("closeJoystick", 0, "OK"),
                 Call("Autocenter", 0, StopResult), Call("close", 0, "OK") >>

\* A variant of JoinReturns in which join does not wait for the thread.
JoinReturns_NoWait(u) == TRUE

\* if (m_UpdateThread.joinable()) m_UpdateThread.join(): the call returns once
\* UpdateLoop has returned; a thread that was never started or is already
\* joined is not joinable and is left alone.
JoinReturns(u) == u \notin {"test", "body"}

Joined(u) == IF u = "exited" THEN "joined" ELSE u

\* Shutdown: the flag is cleared, the polling thread is joined when it is
\* joinable, then StopAllEffects, CleanupEffects and the release of the device.
Shutdown ==
  /\ JoinReturns(upd)
  /\ m_bRunning' = FALSE
  /\ upd' = Joined(upd)
  /\ m_bEffectPlaying' = FALSE
  /\ devPlaying' = devPlaying \ Handles(m_Effects)
  /\ devEffects' = devEffects \ Handles(m_Effects)
  /\ devParams' = IF DOMAIN devParams \subseteq Handles(m_Effects) THEN << >>
                  ELSE [h \in DOMAIN devParams \ Handles(m_Effects) |-> devParams[h]]
  /\ m_Effects' = << >>
  /\ m_EffectNames' = << >>
  /\ m_pDevice' = FALSE
  /\ devOwned' = FALSE
  /\ last' = Op("Shutdown", TRUE,
                StopAllCalls(m_Effects) \o CleanupCalls(m_Effects) \o ReleaseCalls)
  /\ UNCHANGED << platform, setVars, m_bDeviceAcquired, m_bShowingHelp,
                  m_CurrentEffectIndex, m_ForceIntensity, m_JoyState, navVars >>

\* main() after Run: simulator.Shutdown().
MainShutdown ==
  /\ pc = "ran"
  /\ Shutdown
  /\ pc' = "shut"

\* ~ForceEffectSimulator, at the end of main() or after a failed Initialize.
Destructor ==
  /\ pc \in {"failed", "shut"}
  /\ Shutdown
  /\ pc' = "done"

\* ---------------------------------------------------------------- Run

\* Run up to the command loop: the flag is set and the polling thread started.
RunStart ==
  /\ pc = "ready"
  /\ IF DOMAIN m_Effects = {}
       THEN /\ pc' = "ran"
            /\ UNCHANGED << m_bRunning, upd >>
       ELSE /\ m_bRunning' = TRUE
            /\ upd' = "test"
            /\ pc' = "loop"
  /\ last' = Op("Run", TRUE, << >>)
  /\ UNCHANGED << platform, setVars, devParams, m_pDevice, m_bDeviceAcquired, m_bShowingHelp, catVars,
                  m_CurrentEffectIndex, m_bEffectPlaying, m_ForceIntensity,
                  m_JoyState, devOwned, devEffects, devPlaying, navVars >>

\* A key of the command loop outside help mode.
Command == pc = "loop" /\ m_bRunning /\ ~m_bShowingHelp

loopVars == << pc, upd, m_bRunning, m_bShowingHelp, navVars >>

\* ESC: leaves help mode, or clears the running flag and ends the loop.
KeyEsc ==
  /\ pc = "loop" /\ m_bRunning
  /\ IF m_bShowingHelp
       THEN m_bShowingHelp' = FALSE /\ UNCHANGED << m_bRunning, pc >>
       ELSE m_bRunning' = FALSE /\ pc' = "quit" /\ UNCHANGED m_bShowingHelp
  /\ last' = Op("KeyEsc", TRUE, << >>)
  /\ UNCHANGED << platform, setVars, devParams, upd, m_pDevice, m_bDeviceAcquired, catVars,
                  m_CurrentEffectIndex, m_bEffectPlaying, m_ForceIntensity,
                  m_JoyState, devOwned, devEffects, devPlaying, navVars >>

\* H: toggles help mode.
KeyH ==
  /\ pc = "loop" /\ m_bRunning
  /\ m_bShowingHelp' = ~m_bShowingHelp
  /\ last' = Op("KeyH", TRUE, << >>)
  /\ UNCHANGED << platform, setVars, devParams, pc, upd, m_pDevice, m_bDeviceAcquired, catVars,
                  m_CurrentEffectIndex, m_bEffectPlaying, m_bRunning,
                  m_ForceIntensity, m_JoyState, devOwned, devEffects, devPlaying,
                  navVars >>

\* SPACE: stops the current effect when the flag says it plays, else plays it.
KeySpace ==
  /\ Command
  /\ IF m_bEffectPlaying THEN StopCurrentEffect ELSE PlayCurrentEffect
  /\ UNCHANGED loopVars

KeyS == Command /\ StopAllEffects /\ UNCHANGED loopVars

KeyN == Command /\ NextEffect /\ UNCHANGED loopVars

KeyP == Command /\ PreviousEffect /\ UNCHANGED loopVars

\* The number of steps that separate the three adjustable values from the
\* values of the constructor, when at most one of them is away from its
\* initial value (otherwise: beyond every bound). The command loop is
\* explored with one value adjusted at a time, up to MaxAdjust steps.
AdjustSteps(i, dir, dur) ==
  LET di == Abs(i - InitIntensity(platform)) \div Step(platform)
      dd == Abs(dir) \div DIRECTION_STEP
      dt == Abs(dur - EFFECT_DURATION) \div DURATION_STEP
  IN  IF Cardinality({ k \in {<<1, di>>, <<2, dd>>, <<3, dt>>} : k[2] # 0 }) <= 1
        THEN di + dd + dt
        ELSE MaxAdjust + 1

\* An intensity key of the command loop. The session is explored with the
\* key pressed where AdjustIntensity pushes nothing to the device; the
\* presses that push are explored, interleaved with play and stop and over
\* the range of the intensity, by the specification SpecAdj.
IntensityKey(delta) ==
  /\ Command
  /\ AdjustSteps(NewIntensity(platform, m_ForceIntensity, delta),
                 m_EffectDirection, m_EffectDuration) <= MaxAdjust
  /\ AdjustIntensity(delta)
  /\ devParams' = devParams
  /\ UNCHANGED loopVars

\* + and -: one intensity step up or down.
KeyPlus == IntensityKey(Step(platform))

KeyMinus == IntensityKey(-Step(platform))

\* The arrow keys, which only the DirectInput loop reads: left and right turn
\* the direction by 1000, up and down change the duration by 500 ms.
DirectionKey(delta) ==
  /\ Command
  /\ platform = DI
  /\ AdjustSteps(m_ForceIntensity, m_EffectDirection + delta, m_EffectDuration)
       <= MaxAdjust
  /\ AdjustDirection(delta)
  /\ UNCHANGED loopVars

DurationKey(delta) ==
  /\ Command
  /\ platform = DI
  /\ AdjustSteps(m_ForceIntensity, m_EffectDirection, m_EffectDuration + delta)
       <= MaxAdjust
  /\ AdjustDuration(delta)
  /\ UNCHANGED loopVars

KeyLeft == DirectionKey(-DIRECTION_STEP)

KeyRight == DirectionKey(DIRECTION_STEP)

KeyUp == DurationKey(DURATION_STEP)

KeyDown == DurationKey(-DURATION_STEP)

\* Run after the loop: StopAllEffects, then the join of the polling thread.
RunStopAll ==
  /\ pc = "quit"
  /\ StopAllEffects
  /\ pc' = "join"
  /\ UNCHANGED << upd, m_bRunning, m_bShowingHelp, navVars >>

RunJoin ==
  /\ pc = "join"
  /\ JoinReturns(upd)
  /\ upd' = Joined(upd)
  /\ pc' = "ran"
  /\ last' = Op("join", TRUE, << >>)
  /\ UNCHANGED << platform, setVars, devParams, m_pDevice, m_bDeviceAcquired, m_bShowingHelp, catVars,
                  m_CurrentEffectIndex, m_bEffectPlaying, m_bRunning,
                  m_ForceIntensity, m_JoyState, devOwned, devEffects, devPlaying,
                  navVars >>

\* ------------------------------------------------------- polling thread

\* A variant of FlagSeen in which the polling thread never sees the flag
\* cleared.
FlagSeen_NeverCleared(flag) == {TRUE}

\* What the polling thread can read from m_bRunning, a plain bool that the
\* foreground thread clears without any synchronisation. The flag is set
\* before the thread is created and only cleared afterwards, so the racing
\* read gives the cleared flag or, for a while, the value from before.
FlagSeen(flag) == IF flag THEN {TRUE} ELSE {TRUE, FALSE}

\* UpdateLoop: the test of while (m_bRunning).
PollTest ==
  /\ upd = "test"
  /\ \E seen \in FlagSeen(m_bRunning) :
       /\ upd' = IF seen THEN "body" ELSE "exited"
       /\ last' = Op("UpdateLoop", seen, << >>)
  /\ UNCHANGED << platform, setVars, devParams, pc, m_pDevice, m_bDeviceAcquired, m_bShowingHelp,
                  catVars, m_CurrentEffectIndex, m_bEffectPlaying, m_bRunning,
                  m_ForceIntensity, m_JoyState, devOwned, devEffects, devPlaying,
                  navVars >>

\* A variant of PollTick in which a tick that read no sample ends the loop.
PollTick_StopsOnFailure ==
  /\ upd = "body"
  /\ UpdateDeviceState
  /\ upd' = IF last'.ret THEN "test" ELSE "exited"
  /\ UNCHANGED << pc, m_bRunning, m_bShowingHelp, navVars >>

\* UpdateLoop: the body, one UpdateDeviceState.
PollTick ==
  /\ upd = "body"
  /\ UpdateDeviceState
  /\ upd' = "test"
  /\ UNCHANGED << pc, m_bRunning, m_bShowingHelp, navVars >>

\* ------------------------------------------------------------ the device

\* The application loses the device: another application takes the exclusive
\* acquisition (DirectInput) or the wheel is unplugged (evdev, where the
\* kernel's effect table goes with it). Whatever was playing stops.
DeviceLost ==
  /\ devOwned
  /\ devOwned' = FALSE
  /\ devPlaying' = {}
  /\ devEffects' = IF platform = EV THEN {} ELSE devEffects
  /\ devParams' = IF platform = EV THEN << >> ELSE devParams
  /\ last' = Op("DeviceLost", TRUE, << >>)
  /\ UNCHANGED << platform, setVars, pc, upd, m_pDevice, m_bDeviceAcquired, m_bShowingHelp,
                  catVars, m_CurrentEffectIndex, m_bEffectPlaying, m_bRunning,
                  m_ForceIntensity, m_JoyState, navVars >>

\* A playing ramp reaches the end of its 3000 ms and stops by itself.
EffectExpires ==
  /\ \E h \in devPlaying :
       /\ h \in Handles(m_Effects)
       /\ Kind(NameOf(h)) = "Ramp"
       /\ devPlaying' = devPlaying \ {h}
  /\ last' = Op("EffectExpires", TRUE, << >>)
  /\ UNCHANGED << platform, setVars, devParams, pc, upd, m_pDevice, m_bDeviceAcquired, m_bShowingHelp,
                  catVars, m_CurrentEffectIndex, m_bEffectPlaying, m_bRunning,
                  m_ForceIntensity, m_JoyState, devOwned, devEffects, navVars >>

\* ------------------------------------------------- shared-state accesses

\* The accesses to the fields both threads use that the foreground thread
\* makes in a turn of the command loop: the loop test reads m_bRunning, ESC
\* outside help mode writes it, and DisplayStatus reads the acquisition state
\* and the cached sample.
ForegroundAccess ==
  IF pc = "loop"
    THEN { << "m_bRunning", "read" >>,
           << "m_bDeviceAcquired", "read" >>,
           << "m_JoyState", "read" >> }
         \cup (IF m_bShowingHelp THEN {} ELSE { << "m_bRunning", "write" >> })
    ELSE {}

\* The accesses the polling thread makes at its position: the loop test
\* reads m_bRunning; UpdateDeviceState writes the cached sample and, on
\* DirectInput, reads and writes the acquisition state.
PollingAccess ==
  IF upd = "test" THEN { << "m_bRunning", "read" >> }
  ELSE IF upd = "body"
    THEN { << "m_JoyState", "write" >> }
         \cup (IF platform = DI
                THEN { << "m_bDeviceAcquired", "read" >>,
                       << "m_bDeviceAcquired", "write" >> }
                ELSE {})
  ELSE {}

\* The shared fields that are atomics or are accessed under a common mutex:
\* the class declares plain fields and no mutex.
Synchronised == {}

\* Both threads are about to access the same unsynchronised field and one of
\* the two accesses is a write.
DataRace ==
  \E a \in ForegroundAccess, b \in PollingAccess :
    /\ a[1] = b[1]
    /\ "write" \in {a[2], b[2]}
    /\ a[1] \notin Synchronised

\* ------------------------------------------------------- specification

Next ==
  \/ Initialize
  \/ RunStart
  \/ KeyEsc
  \/ KeyH
  \/ KeySpace
  \/ KeyS
  \/ KeyN
  \/ KeyP
  \/ KeyPlus
  \/ KeyMinus
  \/ KeyLeft
  \/ KeyRight
  \/ KeyUp
  \/ KeyDown
  \/ RunStopAll
  \/ RunJoin
  \/ MainShutdown
  \/ Destructor
  \/ PollTest
  \/ PollTick
  \/ DeviceLost
  \/ EffectExpires

Spec == Init /\ [][Next]_vars

\* A polling tick whose Acquire and whose read of the sample both succeed.
AcquiringTick ==
  /\ PollTick
  /\ "OK" \in CallResults(last', "Acquire")
  /\ "OK" \in CallResults(last', "GetDeviceState")

\* The session with a polling thread that keeps being scheduled (it sleeps
\* 16 ms between two ticks and nothing else blocks it) and a device that, asked
\* again and again, ends up granting the acquisition.
SpecLive ==
  /\ Spec
  /\ WF_vars(PollTest)
  /\ WF_vars(PollTick)
  /\ SF_vars(AcquiringTick)

\* A test of the loop condition that reads the cleared flag.
PollExit == PollTest /\ upd' = "exited"

\* The session whose two threads keep being scheduled: Run goes on after its
\* loop, each native call of StopAllEffects and of a tick returns, and the
\* cleared flag, reloaded at every turn of the polling loop, is read as
\* cleared after finitely many turns.
SpecQuit ==
  /\ Spec
  /\ WF_vars(RunStopAll)
  /\ WF_vars(RunJoin)
  /\ WF_vars(PollTick)
  /\ SF_vars(PollExit)

\* ------------------------------------------- the session on any catalog

\* The control methods called on the object as CreateAllEffects leaves it when
\* the device accepts only the first k definitions, for every k: the catalogs
\* of every size from 0 to 14. navStart and navCount follow the runs of
\* consecutive NextEffect calls.
\* The trail after one more navigation call: the newest TrailLen entries.
Trail(trail, method, cursor) ==
  LET t == Append(trail, << method, cursor >>)
  IN  IF Len(t) > TrailLen THEN Tail(t) ELSE t

NavInit ==
  /\ platform \in Platforms
  /\ pc = "methods"
  /\ upd = "idle"
  /\ m_pDevice = TRUE
  /\ m_bDeviceAcquired = TRUE
  /\ m_bShowingHelp = FALSE
  /\ \E k \in 0..Len(Defs) :
       LET c == CreateAllEffects({ Defs[i] : i \in (k + 1)..Len(Defs) }, << >>, << >>)
       IN  /\ m_Effects = c.effects
           /\ m_EffectNames = c.names
           /\ devEffects = Handles(c.effects)
           /\ devParams = CreatedParams(platform, c.effects)
  /\ m_EffectDuration = EFFECT_DURATION
  /\ m_EffectDirection = 0
  /\ m_CurrentEffectIndex = 0
  /\ m_bEffectPlaying = FALSE
  /\ m_bRunning = TRUE
  /\ m_ForceIntensity = InitIntensity(platform)
  /\ m_JoyState = 0
  /\ devOwned = TRUE
  /\ devPlaying = {}
  /\ last = Op("ctor", TRUE, << >>)
  /\ navStart = 0
  /\ navCount = 0
  /\ navTrail = << >>

NavNext ==
  /\ pc = "methods"
  /\ NextEffect
  /\ IF navCount = 0 \/ navCount >= Len(m_EffectNames)
       THEN navStart' = m_CurrentEffectIndex /\ navCount' = 1
       ELSE navStart' = navStart /\ navCount' = navCount + 1
  /\ navTrail' = Trail(navTrail, "NextEffect", m_CurrentEffectIndex)
  /\ UNCHANGED << pc, upd, m_bRunning, m_bShowingHelp >>

NavPrevious ==
  /\ pc = "methods"
  /\ PreviousEffect
  /\ navStart' = m_CurrentEffectIndex'
  /\ navCount' = 0
  /\ navTrail' = Trail(navTrail, "PreviousEffect", m_CurrentEffectIndex)
  /\ UNCHANGED << pc, upd, m_bRunning, m_bShowingHelp >>

NavPlay ==
  /\ pc = "methods"
  /\ PlayCurrentEffect
  /\ navStart' = m_CurrentEffectIndex
  /\ navCount' = 0
  /\ navTrail' = << >>
  /\ UNCHANGED << pc, upd, m_bRunning, m_bShowingHelp >>

NavNextStep ==
  \/ NavNext
  \/ NavPrevious
  \/ NavPlay
  \/ DeviceLost

SpecNav == NavInit /\ [][NavNextStep]_vars

\* ------------------------------------------- the adjustment methods alone

\* The session as Run leaves it to the command keys, with the whole catalog
\* registered and the cursor anywhere in it; then the adjustment of the
\* intensity is interleaved with play, stop and the device's own events,
\* up to MaxWalk steps on either side of the initial intensity.
AdjInit ==
  /\ platform \in Platforms
  /\ pc = "methods"
  /\ upd = "idle"
  /\ m_pDevice = TRUE
  /\ m_bDeviceAcquired = TRUE
  /\ m_bShowingHelp = FALSE
  /\ LET c == CreateAllEffects({}, << >>, << >>)
     IN  /\ m_Effects = c.effects
         /\ m_EffectNames = c.names
         /\ devEffects = Handles(c.effects)
         /\ devParams = CreatedParams(platform, c.effects)
  /\ m_EffectDuration = EFFECT_DURATION
  /\ m_EffectDirection = 0
  /\ m_CurrentEffectIndex \in 0..(Len(Defs) - 1)
  /\ m_bEffectPlaying = FALSE
  /\ m_bRunning = TRUE
  /\ m_ForceIntensity = InitIntensity(platform)
  /\ m_JoyState = 0
  /\ devOwned = TRUE
  /\ devPlaying = {}
  /\ last = Op("ctor", TRUE, << >>)
  /\ navStart = 0
  /\ navCount = 0
  /\ navTrail = << >>

AdjPlay == pc = "methods" /\ PlayCurrentEffect /\ UNCHANGED loopVars

AdjStop == pc = "methods" /\ StopCurrentEffect /\ UNCHANGED loopVars

AdjIntensity(delta) ==
  /\ pc = "methods"
  /\ Abs(m_ForceIntensity + delta - InitIntensity(platform))
       <= MaxWalk * Step(platform)
  /\ AdjustIntensity(delta)
  /\ UNCHANGED loopVars

AdjUp == AdjIntensity(Step(platform))

AdjDown == AdjIntensity(-Step(platform))

AdjNext ==
  \/ AdjPlay
  \/ AdjStop
  \/ AdjUp
  \/ AdjDown
  \/ DeviceLost
  \/ EffectExpires

SpecAdj == AdjInit /\ [][AdjNext]_vars

\* The setters alone, each walked over its whole range with the steps of
\* the command loop while the other one rests at its initial value.
WalkInit == AdjInit /\ m_CurrentEffectIndex = 0

WalkIntensity(delta) ==
  /\ pc = "methods"
  /\ m_EffectDuration = EFFECT_DURATION
  /\ AdjustIntensity(delta)
  /\ UNCHANGED loopVars

WalkDuration(delta) ==
  /\ pc = "methods"
  /\ m_ForceIntensity = InitIntensity(platform)
  /\ AdjustDuration(delta)
  /\ UNCHANGED loopVars

WalkIntensityUp == WalkIntensity(Step(platform))

WalkIntensityDown == WalkIntensity(-Step(platform))

WalkDurationUp == WalkDuration(DURATION_STEP)

WalkDurationDown == WalkDuration(-DURATION_STEP)

WalkNext ==
  \/ WalkIntensityUp
  \/ WalkIntensityDown
  \/ WalkDurationUp
  \/ WalkDurationDown

SpecWalk == WalkInit /\ [][WalkNext]_vars

\* ------------------------------------- the control commands, both variants

\* The four control commands of the command loop called on the object that
\* CreateAllEffects leaves, on a device that stays with the application: the
\* SPACE toggle, stop-all, next and previous, with effects that end by
\* themselves in between.
CtlSpace ==
  /\ pc = "methods"
  /\ IF m_bEffectPlaying THEN StopCurrentEffect ELSE PlayCurrentEffect
  /\ navStart' = m_CurrentEffectIndex
  /\ navCount' = 0
  /\ navTrail' = << >>
  /\ UNCHANGED << pc, upd, m_bRunning, m_bShowingHelp >>

CtlStopAll ==
  /\ pc = "methods"
  /\ StopAllEffects
  /\ navStart' = m_CurrentEffectIndex
  /\ navCount' = 0
  /\ navTrail' = << >>
  /\ UNCHANGED << pc, upd, m_bRunning, m_bShowingHelp >>

CtlStep ==
  \/ CtlSpace
  \/ CtlStopAll
  \/ NavNext
  \/ NavPrevious
  \/ EffectExpires

SpecCtl == NavInit /\ [][CtlStep]_vars

\* The cursor and the playing flag after a control command given on a catalog
\* of n effects with cursor i and flag f, when every native call succeeds, as
\* the DirectInput variant computes them.
ControlStep(cmd, i, f, n) ==
  IF n = 0 /\ cmd # "stopall" THEN << i, f >>
  ELSE CASE cmd = "space"    -> << i, ~f >>
         [] cmd = "stopall"  -> << i, FALSE >>
         [] cmd = "next"     -> << (i + 1) % n, FALSE >>
         [] OTHER            -> << (i - 1 + n) % n, FALSE >>

\* --------------------------------------------- registration on a catalog

\* The handle the device gives to the next effect it creates.
FreshHandle ==
  IF devEffects = {} THEN 1
  ELSE (CHOOSE h \in devEffects : \A g \in devEffects : g <= h) + 1

\* One Create*Effect call for the definition `name` on the object that
\* CreateAllEffects leaves, whether or not the table already has the name, on
\* a device that accepts or rejects the definition. The navigation list is
\* built by CreateAllEffects only.
Register(name, rejected) ==
  /\ pc = "methods"
  /\ Cardinality(devEffects) - Len(m_EffectNames) < MaxRegister
  /\ LET r == CreateEffect(name, IF rejected THEN {name} ELSE {},
                           [effects |-> m_Effects, nextId |-> FreshHandle,
                            ok |-> TRUE, success |-> TRUE, calls |-> << >>])
     IN  /\ m_Effects' = r.effects
         /\ devEffects' = devEffects \cup Handles(r.effects)
         /\ devParams' = [h \in DOMAIN devParams \cup Handles(r.effects) |->
                            IF h \in DOMAIN devParams THEN devParams[h]
                            ELSE CreationParams(platform, name)]
         /\ last' = Op("CreateEffect", r.ok, r.calls)
  /\ UNCHANGED << platform, setVars, pc, upd, m_pDevice, m_bDeviceAcquired,
                  m_bShowingHelp, m_EffectNames, m_CurrentEffectIndex,
                  m_bEffectPlaying, m_bRunning, m_ForceIntensity, m_JoyState,
                  devOwned, devPlaying, navVars >>

RegStep == \E name \in DefSet, rejected \in BOOLEAN : Register(name, rejected)

SpecReg == NavInit /\ [][RegStep]_vars

\* ------------------------------------------------------------- claims

\* C1: in every reachable state of the session at most one effect is playing
\* on the device.
C1_AtMostOnePlaying == Cardinality(devPlaying) <= 1

\* C1 witness: a play has just started the effect at a cursor that was moved,
\* and it is the one effect playing.
C1_Witness ==
  /\ last.op = "PlayCurrentEffect"
  /\ pc = "loop"
  /\ m_CurrentEffectIndex # 0
  /\ devPlaying = {CurrentHandle}

\* The play call that has just returned had its native start accepted.
PlayStarted ==
  /\ last.op = "PlayCurrentEffect"
  /\ "OK" \in CallResults(last, "Start")

\* C2: right after PlayCurrentEffect returns with a successful native start,
\* exactly one handle is playing, it is the handle of the effect at the cursor,
\* and the playing flag is true.
C2_PlayLeavesCursorEffectPlaying ==
  PlayStarted => (devPlaying = {CurrentHandle} /\ m_bEffectPlaying)

\* C3: right after any StopAllEffects call no handle of the catalog is playing
\* and the playing flag is false, and a second call would change neither.
C3_StopAllStopsEverything ==
  last.op = "StopAllEffects" =>
    /\ devPlaying \cap Handles(m_Effects) = {}
    /\ ~m_bEffectPlaying
    /\ StopAllPlaying(devPlaying, m_Effects) = devPlaying

\* C3 witness: a StopAllEffects call in the command loop whose stop ended an
\* effect that was playing.
C3_Witness ==
  /\ last.op = "StopAllEffects"
  /\ pc = "loop"
  /\ "STOPPED" \in CallResults(last, "Stop")

\* C4: a play whose native start fails because the device is no longer owned
\* leaves the acquisition state not acquired.
C4_PlayMarksLost ==
  ( /\ last.op = "PlayCurrentEffect"
    /\ CallResults(last, "Start") \cap {"INPUTLOST", "NOTEXCLUSIVEACQUIRED"} # {} )
  => ~m_bDeviceAcquired

\* The starts and downloads of a log entry, in order, as call/result pairs.
StartsAndDownloads(l) ==
  LET sd == SelectSeq(l.calls, LAMBDA c : c[1] \in {"Start", "Download"})
  IN  [i \in 1..Len(sd) |-> << sd[i][1], sd[i][3] >>]

\* C5: one play call issues at most two starts and at most one download; the
\* download follows a first start that failed with "not downloaded", and the
\* second start follows a successful download; any other failure ends the call.
C5_OneRetryOnly ==
  last.op = "PlayCurrentEffect" =>
    LET sd == StartsAndDownloads(last)
    IN  \/ sd = << >>
        \/ Len(sd) = 1 /\ sd[1][1] = "Start" /\ sd[1][2] # "NOTDOWNLOADED"
        \/ sd = << << "Start", "NOTDOWNLOADED" >>, << "Download", "ERR" >> >>
        \/ /\ Len(sd) = 3
           /\ sd[1] = << "Start", "NOTDOWNLOADED" >>
           /\ sd[2] = << "Download", "OK" >>
           /\ sd[3][1] = "Start"

\* C5 witness: a play that started the effect with its second start.
C5_Witness ==
  /\ last.op = "PlayCurrentEffect"
  /\ Len(CallsOf(last, "Start")) = 2
  /\ m_bEffectPlaying

\* The native calls of a log entry that can fail a play, and the last of them.
PlayFailed(l) ==
  /\ l.op = "PlayCurrentEffect"
  /\ StartsAndDownloads(l) # << >>
  /\ StartsAndDownloads(l)[Len(StartsAndDownloads(l))][2] # "OK"

\* C6: a play call whose native start fails returns within the call, without
\* an acquire, and leaves the playing flag false, no effect playing and the
\* cursor where it was.
C6_FailedPlayIsSoft ==
  [][ PlayFailed(last') =>
        /\ ~m_bEffectPlaying'
        /\ devPlaying' = {}
        /\ m_CurrentEffectIndex' = m_CurrentEffectIndex
        /\ CallsOf(last', "Acquire") = << >>
        /\ m_bDeviceAcquired' = m_bDeviceAcquired
        /\ devOwned' = devOwned
        /\ pc' = pc ]_vars

\* C6 witness: a play that failed on a device whose loss a polling tick had
\* already recorded, with the cursor moved away from 0.
C6_Witness ==
  /\ PlayFailed(last)
  /\ ~m_bDeviceAcquired
  /\ ~devOwned
  /\ pc = "loop"
  /\ m_CurrentEffectIndex # 0

\* C7: on a catalog of size N >= 1 the cursor stays in 0..N-1 under NextEffect
\* and PreviousEffect, and N consecutive NextEffect calls bring it back to
\* where the run began.
C7_CursorInRangeAndCycle ==
  m_EffectNames # << >> =>
    /\ m_CurrentEffectIndex \in 0..(Len(m_EffectNames) - 1)
    /\ navCount = Len(m_EffectNames) => m_CurrentEffectIndex = navStart

\* C7 witness: a full run of NextEffect calls on a catalog of 11 entries that
\* began in the middle of the list and wrapped around.
C7_Witness ==
  /\ Len(m_EffectNames) = 11
  /\ navCount = 11
  /\ navStart = 5
  /\ last.op = "NextEffect"

\* C8: NextEffect and PreviousEffect stop the effect at the cursor before
\* they move it, so that afterwards nothing plays and the flag is false; on an
\* empty catalog they change nothing and issue no device command.
C8_NavigationStopsFirst ==
  [][ last'.op \in {"NextEffect", "PreviousEffect"} =>
        IF m_EffectNames = << >>
          THEN /\ last'.calls = << >>
               /\ UNCHANGED << m_CurrentEffectIndex, m_bEffectPlaying, devPlaying,
                               devOwned, devEffects, catVars >>
          ELSE /\ Len(last'.calls) = 1
               /\ last'.calls[1][1] = "Stop"
               /\ last'.calls[1][2] = CurrentHandle
               /\ devPlaying' = {}
               /\ ~m_bEffectPlaying'
               /\ m_CurrentEffectIndex' # m_CurrentEffectIndex
                    \/ Len(m_EffectNames) = 1 ]_vars

\* C8 witness: a NextEffect whose stop ended the playing effect and then moved
\* the cursor.
C8_Witness ==
  /\ last.op = "NextEffect"
  /\ "STOPPED" \in CallResults(last, "Stop")
  /\ m_CurrentEffectIndex = 3

\* C8 witness on the empty catalog is the state after a PreviousEffect there.
C8_WitnessEmpty ==
  /\ last.op = "PreviousEffect"
  /\ m_EffectNames = << >>

\* C9: catalog construction succeeds exactly when at least one of the 14
\* definitions registers with the device.
C9_SucceedsIffSomeRegistered ==
  ( last.op = "Initialize" /\ last.calls # << >> ) =>
    ( last.ret <=> "OK" \in CallResults(last, "CreateEffect") )

\* The definitions a construction's log shows as accepted by the device.
AcceptedNames(l) ==
  { n \in DefSet :
      SelectSeq(l.calls, LAMBDA c : c[1] = "CreateEffect" /\ c[2] = n /\ c[3] = "OK")
        # << >> }

\* C10: after catalog construction the handle table and the navigation list
\* hold exactly the definitions the device accepted, each once, and the
\* registration of every definition was attempted exactly once.
C10_CatalogIsTheAccepted ==
  ( last.op = "Initialize" /\ last.calls # << >> ) =>
    /\ DOMAIN m_Effects = AcceptedNames(last)
    /\ NamesOf(m_EffectNames) = AcceptedNames(last)
    /\ Len(m_EffectNames) = Cardinality(AcceptedNames(last))
    /\ devEffects = Handles(m_Effects)
    /\ Cardinality(Handles(m_Effects)) = Cardinality(AcceptedNames(last))
    /\ \A n \in DefSet :
         Len(SelectSeq(last.calls, LAMBDA c : c[1] = "CreateEffect" /\ c[2] = n)) = 1

\* C10 witness: a construction in which the device rejected 3 of the 14
\* definitions and the catalog kept the other 11.
C10_Witness ==
  /\ last.op = "Initialize"
  /\ Cardinality(DefSet \ AcceptedNames(last)) = 3
  /\ Len(m_EffectNames) = 11
  /\ "Friction" \notin DOMAIN m_Effects

\* C11: the navigation list holds the registered definitions in the order in
\* which construction added them, Constant_Droite first.
C11_NavigationIsInsertionOrder ==
  m_EffectNames = SelectSeq(Defs, LAMBDA n : n \in DOMAIN m_Effects)

\* C12: when the device is not found or not opened, Initialize returns false
\* without a registration attempt, main does not call Run, and from a failed
\* Initialize on neither the command loop nor the polling thread is started.
C12_NoDeviceNoSession ==
  [][ /\ (pc = "start" /\ last'.op = "Initialize" /\ ~m_pDevice') =>
           /\ ~last'.ret
           /\ last'.calls = << >>
           /\ m_Effects' = << >>
           /\ m_EffectNames' = << >>
           /\ devEffects' = {}
           /\ pc' = "failed"
      /\ pc = "failed" =>
           /\ pc' \in {"failed", "done"}
           /\ upd' = "idle"
           /\ ~m_bRunning' ]_vars

\* C12 witness: Initialize has just failed for want of a device.
C12_Witness ==
  /\ pc = "failed"
  /\ last.op = "Initialize"
  /\ ~m_pDevice
  /\ upd = "idle"

\* C13: a failed Acquire in FindAndInitDevice does not fail Initialize, whose
\* value is that of the catalog construction that follows; a failed Acquire in
\* a polling tick leaves the state not acquired, the polling loop at its next
\* test and the session running.
C13_FailedAcquireNotEscalated ==
  [][ /\ ( /\ pc = "start"
           /\ last'.op = "Initialize"
           /\ "ERR" \in CallResults(last', "Acquire") ) =>
           /\ Len(CallsOf(last', "CreateEffect")) = Len(Defs)
           /\ last'.ret = ("ERR" \notin CallResults(last', "CreateEffect"))
           /\ pc' = IF last'.ret THEN "ready" ELSE "failed"
           /\ ~m_bDeviceAcquired'
      /\ ( /\ upd = "body"
           /\ last'.op = "UpdateDeviceState"
           /\ "ERR" \in CallResults(last', "Acquire") ) =>
           /\ ~m_bDeviceAcquired'
           /\ upd' = "test"
           /\ m_bRunning' = m_bRunning
           /\ m_pDevice' = m_pDevice
           /\ pc' = pc ]_vars

\* C13 witness: in a session whose first Acquire failed and which runs its
\* command loop, a polling tick's Acquire has just failed.
C13_Witness ==
  /\ pc = "loop"
  /\ m_bRunning
  /\ upd = "test"
  /\ last.op = "UpdateDeviceState"
  /\ last.calls = << Call("Acquire", 0, "ERR") >>

\* C14: a polling tick that starts not acquired and whose Acquire fails issues
\* no Poll and no GetDeviceState, leaves the cached sample as it was and leaves
\* the state not acquired.
C14_FailedAcquireSkipsTick ==
  [][ ( /\ upd = "body"
        /\ last'.op = "UpdateDeviceState"
        /\ ~m_bDeviceAcquired
        /\ last'.calls # << >>
        /\ last'.calls[1] = Call("Acquire", 0, "ERR") ) =>
        /\ last'.calls = << Call("Acquire", 0, "ERR") >>
        /\ m_JoyState' = m_JoyState
        /\ ~m_bDeviceAcquired' ]_vars

\* C14 witness: a skipped tick in a session that had cached a sample of 1
\* before it lost the device.
C14_Witness ==
  /\ last.op = "UpdateDeviceState"
  /\ last.calls = << Call("Acquire", 0, "ERR") >>
  /\ m_JoyState = 1
  /\ ~m_bDeviceAcquired
  /\ pc = "loop"

\* The pull of the tick that has just ended failed: the Poll and the Acquire
\* after it failed, or the read of the sample failed.
PullFailed ==
  /\ last.op = "UpdateDeviceState"
  /\ \/ "ERR" \in CallResults(last, "GetDeviceState")
     \/ "ERR" \in CallResults(last, "read")
     \/ /\ "ERR" \in CallResults(last, "Poll")
        /\ last.calls[Len(last.calls)] = Call("Acquire", 0, "ERR")

\* C15: at the end of a polling tick whose pull failed because the device or
\* its ownership was lost, the state the session reports is not acquired.
C15_FailedPullMarksLost == PullFailed => ~m_bDeviceAcquired

\* C16: a polling tick that starts not acquired and whose Acquire and read
\* both succeed leaves the state acquired; and with a polling thread that keeps
\* ticking and a device that ends up granting the acquisition, a state that is
\* not acquired leads to one that is, or to the end of the polling loop.
C16_ReacquireRestores ==
  /\ [][ ( /\ upd = "body"
           /\ last'.op = "UpdateDeviceState"
           /\ ~m_bDeviceAcquired
           /\ "OK" \in CallResults(last', "Acquire")
           /\ "OK" \in CallResults(last', "GetDeviceState") ) =>
           m_bDeviceAcquired' ]_vars
  /\ ( platform = DI /\ upd \in {"test", "body"} /\ ~m_bDeviceAcquired )
       ~> ( m_bDeviceAcquired \/ upd = "exited" )

\* C16 witness: in the command loop a tick has just reacquired a device that
\* an earlier tick had recorded as lost.
C16_Witness ==
  /\ pc = "loop"
  /\ m_bRunning
  /\ last.op = "UpdateDeviceState"
  /\ last.calls[1] = Call("Acquire", 0, "OK")
  /\ m_bDeviceAcquired
  /\ m_JoyState = 1

\* C17: the polling thread leaves its loop only at a test that finds the
\* running flag cleared; whatever a tick's acquire, poll or read returned, the
\* thread goes back to the test, and it is in its loop whenever the flag is set.
C17_LoopEndsOnlyOnFlag ==
  /\ [][ /\ (upd # "exited" /\ upd' = "exited") => (upd = "test" /\ ~m_bRunning)
         /\ upd = "body" => upd' \in {"body", "test"} ]_vars
  /\ [](m_bRunning => upd \in {"test", "body"})

\* C17 witness: the thread has left its loop after the quit, in a session that
\* had lost the device and whose ticks had failed.
C17_Witness ==
  /\ upd = "exited"
  /\ last.op = "UpdateLoop"
  /\ ~m_bRunning
  /\ ~m_bDeviceAcquired
  /\ ~devOwned
  /\ platform = DI

\* C18: a Shutdown that releases the connection runs with the polling thread
\* ended or never started, a polling tick that issues a device call finds the
\* connection held, and once the connection is released the thread is joined
\* or was never started.
C18_ReleaseAfterJoin ==
  /\ [][ /\ (pc' # pc /\ last'.op = "Shutdown" /\ m_pDevice) =>
              (upd \notin {"test", "body"} /\ upd' \in {"idle", "joined"})
         /\ (upd = "body" /\ last'.op = "UpdateDeviceState" /\ last'.calls # << >>) =>
              m_pDevice ]_vars
  /\ []((pc \in {"shut", "done"}) => (~m_pDevice /\ upd \in {"idle", "joined"}))

\* C18 witness: main's Shutdown has just released the connection of a session
\* whose polling thread had ticked and was joined.
C18_Witness ==
  /\ pc = "shut"
  /\ upd = "joined"
  /\ last.op = "Shutdown"
  /\ CallsOf(last, "Unacquire") # << >>
  /\ m_JoyState = 1

\* The positions in a sequence of calls of the calls made on the device itself.
DeviceCallsAt(cs) == { i \in 1..Len(cs) : cs[i][2] = 0 }

\* C19: every Shutdown, after a quit as after a failed Initialize, stops and
\* removes every registered handle before the first call that gives the
\* connection back, and leaves the catalog empty and no handle on the device.
C19_ShutdownUnregistersAll ==
  [][ (pc' # pc /\ last'.op = "Shutdown") =>
        /\ m_Effects' = << >>
        /\ m_EffectNames' = << >>
        /\ devEffects' \cap Handles(m_Effects) = {}
        /\ devPlaying' \cap Handles(m_Effects) = {}
        /\ \A h \in Handles(m_Effects) :
             \E i, j \in 1..Len(last'.calls) :
               /\ i < j
               /\ last'.calls[i][1] = "Stop" /\ last'.calls[i][2] = h
               /\ last'.calls[j][1] \in {"Release", "EVIOCRMFF"}
               /\ last'.calls[j][2] = h
               /\ \A k \in DeviceCallsAt(last'.calls) : j < k ]_vars

\* C19 witness: the Shutdown after an Initialize that failed with 11 of the 14
\* definitions registered has removed the 11 and closed the connection.
C19_Witness ==
  /\ pc = "done"
  /\ last.op = "Shutdown"
  /\ Len(CallsOf(last, "EVIOCRMFF")) = 11
  /\ CallsOf(last, "close") # << >>
  /\ m_Effects = << >>
  /\ upd = "idle"

\* C20: the second Shutdown of a session issues no native call and changes no
\* field, and a Shutdown of a session that holds no connection issues none.
C20_ShutdownIdempotent ==
  [][ (pc' # pc /\ last'.op = "Shutdown") =>
        /\ pc = "shut" =>
             /\ last'.calls = << >>
             /\ UNCHANGED << upd, m_pDevice, m_bDeviceAcquired, m_bShowingHelp,
                             catVars, m_CurrentEffectIndex, m_bEffectPlaying,
                             m_bRunning, m_ForceIntensity, m_JoyState, devOwned,
                             devEffects, devPlaying >>
        /\ ~m_pDevice => last'.calls = << >> ]_vars

\* C20 witness: the destructor's Shutdown after main's Shutdown of a session
\* that had run.
C20_Witness ==
  /\ pc = "done"
  /\ upd = "joined"
  /\ last.op = "Shutdown"
  /\ last.calls = << >>

\* C21: StopCurrentEffect never fails its caller: it issues one native stop,
\* and whether that stop succeeds or errors it returns normally with the
\* playing flag false and the cursor where it was.
C21_StopNeverFails ==
  [][ last'.op = "StopCurrentEffect" =>
        /\ last'.ret
        /\ Len(last'.calls) = 1
        /\ CallResults(last', "Stop") \subseteq {"OK", "STOPPED", "ERR"}
        /\ ~m_bEffectPlaying'
        /\ m_CurrentEffectIndex' = m_CurrentEffectIndex ]_vars

\* C21 witness: a StopCurrentEffect whose native stop failed has returned.
C21_Witness ==
  /\ last.op = "StopCurrentEffect"
  /\ CallResults(last, "Stop") = {"ERR"}
  /\ last.ret
  /\ ~m_bEffectPlaying

\* C27: an effect that is playing on the device is the effect at the cursor.
C27_PlayingIsAtCursor ==
  devPlaying \subseteq (IF m_EffectNames = << >> THEN {} ELSE {CurrentHandle})

\* C27 witness: an effect is playing after the cursor has been moved away
\* from the start of the list.
C27_Witness ==
  /\ devPlaying # {}
  /\ m_CurrentEffectIndex > 0
  /\ devPlaying = {CurrentHandle}

\* C28: whenever the session reports that an effect is playing, the effect at
\* the cursor is playing on the device.
C28_FlagMeansPlaying ==
  m_bEffectPlaying => (m_EffectNames # << >> /\ CurrentHandle \in devPlaying)

\* C22: an AdjustIntensity while the effect at the cursor is a ramp or a
\* condition, playing or stopped, sends nothing to the device: the resident
\* parameters and what is playing are as before.
C22_NoPushForRampOrCondition ==
  [][ ( /\ last'.op = "AdjustIntensity"
        /\ m_EffectNames # << >>
        /\ Kind(CurrentName) \in {"Ramp", "Condition"} ) =>
        /\ last'.calls = << >>
        /\ devParams' = devParams
        /\ devPlaying' = devPlaying ]_vars

\* C22 witness: on DirectInput the intensity has been adjusted while a
\* condition effect was playing with the flag set, and the parameters of
\* that effect are those of its creation.
C22_Witness ==
  /\ platform = DI
  /\ last.op = "AdjustIntensity"
  /\ m_ForceIntensity # InitIntensity(platform)
  /\ m_bEffectPlaying
  /\ Kind(CurrentName) = "Condition"
  /\ CurrentHandle \in devPlaying
  /\ devParams[CurrentHandle] = CreationParams(platform, CurrentName)

\* C23: an AdjustIntensity while a constant or periodic effect is playing
\* leaves the new intensity as the resident magnitude of that effect, and the
\* effect playing, the flag and the cursor as they were.
C23_PushReachesPlayingEffect ==
  [][ ( /\ last'.op = "AdjustIntensity"
        /\ m_EffectNames # << >>
        /\ Kind(CurrentName) \in {"Constant", "Periodic"}
        /\ CurrentHandle \in devPlaying ) =>
        /\ devParams'[CurrentHandle].magnitude = m_ForceIntensity'
        /\ CurrentHandle \in devPlaying'
        /\ m_bEffectPlaying' = m_bEffectPlaying
        /\ m_CurrentEffectIndex' = m_CurrentEffectIndex ]_vars

\* What a step of delta gives when the sum saturates at the force limits.
Saturated(p, x, delta) == Clamp(-MaxForce(p), MaxForce(p), x + delta)

\* C24: over every sequence of intensity steps of the command loop the
\* intensity stays within [-MAX_FORCE, MAX_FORCE] and saturates: a step up
\* that would pass MAX_FORCE leaves it at MAX_FORCE instead of wrapping, and
\* likewise downwards.
C24_IntensitySaturates ==
  /\ [](/\ m_ForceIntensity >= -MaxForce(platform)
        /\ m_ForceIntensity <= MaxForce(platform))
  /\ [][ /\ (WalkIntensityUp =>
               (m_ForceIntensity' =
                  Saturated(platform, m_ForceIntensity, Step(platform))))
         /\ (WalkIntensityDown =>
               (m_ForceIntensity' =
                  Saturated(platform, m_ForceIntensity, -Step(platform)))) ]_vars

\* C29: over every sequence of duration steps of +500 and -500 ms the
\* duration stays within [100, 10000] ms, and a step down never gives a
\* duration larger than before: at 100 ms it saturates.
C29_DurationSaturates ==
  /\ [](/\ m_EffectDuration >= DURATION_MIN
        /\ m_EffectDuration <= DURATION_MAX)
  /\ [][ WalkDurationDown => (m_EffectDuration' <= m_EffectDuration) ]_vars

\* C30: AdjustDirection and AdjustDuration only update the session's
\* direction and duration: they issue no device command and leave the
\* resident parameters of every effect, what is playing, the playing flag,
\* the cursor and the intensity as they were.
C30_SettersTouchNoDevice ==
  [][ last'.op \in {"AdjustDirection", "AdjustDuration"} =>
        /\ last'.calls = << >>
        /\ UNCHANGED << devParams, devPlaying, devEffects, devOwned,
                        m_bEffectPlaying, m_CurrentEffectIndex,
                        m_ForceIntensity >> ]_vars

\* C30 witness: the duration has been changed with an arrow key while an
\* effect was playing with the flag set.
C30_Witness ==
  /\ last.op = "AdjustDuration"
  /\ m_EffectDuration # EFFECT_DURATION
  /\ m_bEffectPlaying
  /\ devPlaying = {CurrentHandle}

\* C25: the ESC key outside help mode clears the running flag and ends the
\* command loop, and from there the session terminates: the effects are
\* stopped, the polling thread reads the cleared flag, leaves its loop and is
\* joined, and Run returns.
C25_QuitTerminates ==
  /\ [][ (last'.op = "KeyEsc" /\ ~m_bShowingHelp) =>
           (~m_bRunning' /\ pc' = "quit") ]_vars
  /\ [](pc \in {"quit", "join"} => ~m_bRunning)
  /\ (pc = "quit") ~> ( /\ pc = "ran"
                        /\ upd = "joined"
                        /\ ~m_bRunning
                        /\ ~m_bEffectPlaying
                        /\ devPlaying = {} )

\* C25 witness: Run has just returned from the join of the polling thread,
\* after the quit of a session with a registered catalog.
C25_Witness ==
  /\ pc = "ran"
  /\ upd = "joined"
  /\ last.op = "join"
  /\ ~m_bRunning
  /\ m_EffectNames # << >>

\* C26: in no reachable state are the foreground loop and the polling loop
\* about to access the same shared field, one of them writing, outside a
\* common critical section or an atomic.
C26_NoDataRace == ~DataRace

\* C31: an AdjustIntensity while a periodic effect is playing leaves the
\* period resident on the device for that effect equal to the period the
\* effect was created with (200 ms Sinus, 150 ms Carre, 300 ms Triangle,
\* 180 ms Dent_Scie).
C31_PushKeepsPeriod ==
  [][ ( /\ last'.op = "AdjustIntensity"
        /\ m_EffectNames # << >>
        /\ Kind(CurrentName) = "Periodic"
        /\ m_bEffectPlaying
        /\ CurrentHandle \in devPlaying
        /\ CurrentHandle \in DOMAIN devParams ) =>
        /\ CurrentHandle \in DOMAIN devParams'
        /\ devParams'[CurrentHandle].period =
             CreationParams(platform, CurrentName).period ]_vars

\* C32: a polling tick leaves the cursor, the playing flag, the navigation
\* list, the handle table, the intensity, the direction and the duration as
\* they were, whatever the foreground loop did before it; and every step that
\* changes the cached device sample is a polling tick.
C32_TickFrame ==
  [][ /\ PollTick =>
           UNCHANGED << m_CurrentEffectIndex, m_bEffectPlaying, m_EffectNames,
                        m_Effects, m_ForceIntensity, m_EffectDirection,
                        m_EffectDuration >>
      /\ m_JoyState' # m_JoyState =>
           /\ upd = "body"
           /\ last'.op = "UpdateDeviceState" ]_vars

\* A tick has just read a sample in the middle of the command loop, after the
\* foreground moved the cursor and started an effect.
C32_Witness ==
  /\ pc = "loop"
  /\ last.op = "UpdateDeviceState"
  /\ last.ret
  /\ m_JoyState = MaxSample
  /\ m_bEffectPlaying
  /\ m_CurrentEffectIndex > 0
  /\ m_EffectNames # << >>

\* C33: at every moment the navigation list and the handle table describe the
\* same effects: the names of the list are the keys of the table, no name is
\* listed twice, no handle is stored under two names; once cleanup has run
\* both are empty; and while the list is not empty the cursor designates a
\* name that has a handle, so that a play or a stop finds it.
C33_ListMatchesTable ==
  /\ NamesOf(m_EffectNames) = DOMAIN m_Effects
  /\ Len(m_EffectNames) = Cardinality(DOMAIN m_Effects)
  /\ Cardinality(Handles(m_Effects)) = Cardinality(DOMAIN m_Effects)
  /\ pc \in {"shut", "done"} => m_EffectNames = << >> /\ m_Effects = << >>
  /\ m_EffectNames # << >> =>
       /\ m_CurrentEffectIndex < Len(m_EffectNames)
       /\ CurrentHandle # 0

\* A device rejected some definitions, so that the table is a strict part of
\* the fourteen, and the session ended in cleanup.
C33_Witness ==
  /\ pc = "done"
  /\ last.op = "Shutdown"
  /\ \E i \in 1..Len(last.calls) : last.calls[i][1] \in {"Release", "EVIOCRMFF"}
  /\ Len(SelectSeq(last.calls, LAMBDA c : c[1] \in {"Release", "EVIOCRMFF"})) \in 11..13

\* C34: on a non-empty catalog, when the last two navigation calls were a
\* NextEffect and a PreviousEffect, in either order, the cursor is where it
\* was before the first of the two.
C34_NextPreviousInverse ==
  ( /\ m_EffectNames # << >>
    /\ Len(navTrail) >= 2
    /\ navTrail[Len(navTrail) - 1][1] # navTrail[Len(navTrail)][1] ) =>
      m_CurrentEffectIndex = navTrail[Len(navTrail) - 1][2]

\* On the full catalog NextEffect wrapped from the last effect to the first
\* and PreviousEffect wrapped back to the last.
C34_Witness ==
  /\ Len(m_EffectNames) = 14
  /\ Len(navTrail) >= 2
  /\ navTrail[Len(navTrail) - 1] = << "NextEffect", 13 >>
  /\ navTrail[Len(navTrail)] = << "PreviousEffect", 0 >>
  /\ last.op = "PreviousEffect"
  /\ m_CurrentEffectIndex = 13

\* Every native call of the operation succeeded.
AllSucceeded(l) == \A k \in 1..Len(l.calls) : l.calls[k][3] \in {"OK", "STOPPED", "PLAYING", "IDLE"}

\* C35: on either variant, a control command whose native calls all succeed
\* takes the cursor and the playing flag to the values of one and the same
\* function of the command, the cursor, the flag and the size of the catalog;
\* so the same commands give the same cursor and flag on both variants.
C35_VariantsAgree ==
  [][ AllSucceeded(last') =>
        /\ CtlSpace => << m_CurrentEffectIndex', m_bEffectPlaying' >> =
             ControlStep("space", m_CurrentEffectIndex, m_bEffectPlaying, Len(m_EffectNames))
        /\ CtlStopAll => << m_CurrentEffectIndex', m_bEffectPlaying' >> =
             ControlStep("stopall", m_CurrentEffectIndex, m_bEffectPlaying, Len(m_EffectNames))
        /\ NavNext => << m_CurrentEffectIndex', m_bEffectPlaying' >> =
             ControlStep("next", m_CurrentEffectIndex, m_bEffectPlaying, Len(m_EffectNames))
        /\ NavPrevious => << m_CurrentEffectIndex', m_bEffectPlaying' >> =
             ControlStep("previous", m_CurrentEffectIndex, m_bEffectPlaying, Len(m_EffectNames)) ]_vars

\* The evdev variant has just started, with SPACE, the effect that a
\* PreviousEffect from the first position made current.
C35_Witness ==
  /\ platform = EV
  /\ pc = "methods"
  /\ last.op = "PlayCurrentEffect"
  /\ AllSucceeded(last)
  /\ Len(m_EffectNames) = 14
  /\ m_CurrentEffectIndex = 13
  /\ m_bEffectPlaying

====
